---- MODULE Spec2Model ----
(***************************************************************************)
(* Model of app_rust/src/commapi/protocols/mod.rs of OpenVehicleDiag:      *)
(*   - the session facade DiagServer (new, the dispatching operations,     *)
(*     kill_diag_server and Drop), and                                     *)
(*   - the shared request/response algorithm                               *)
(*     ProtocolServer::run_command_resp, run against a scripted transport. *)
(***************************************************************************)
EXTENDS Integers, Sequences, FiniteSets, TLC

VARIABLES
    server,           \* lifetime of the DiagServer value
    variant,          \* which enum variant the value holds
    new_result,       \* what DiagServer::new returned
    start_calls,      \* start_diag_session invocations, per implementation
    started,          \* what the implementation's start_diag_session returned
    exit_calls,       \* exit_diag_session invocations, per implementation
    kill_calls,       \* kill_diag_server invocations (explicit and from drop)
    ops,              \* public operations performed on the value so far
    invoked,          \* the implementation method the last operation reached
    last_result,      \* what the last operation returned
    op,               \* the last operation: its name, argument, and what the
                      \* implementation returned to it
    pc,               \* run_command_resp: "off", "ready" or "done"
    overflow_checks,  \* build profile: is u8 addition overflow-checked
    call,             \* run_command_resp: the arguments of the call
    interface,        \* the transport: scripted replies and the calls it saw
    result,           \* what run_command_resp returned
    held,             \* run_command_resp, step by step: its local res
    events            \* the session's history: calls, transmissions, frames
                      \* delivered, frames evaluated, returns

facade_vars == <<server, variant, new_result, start_calls, started,
                 exit_calls, kill_calls, ops, invoked, last_result, op>>
engine_vars == <<pc, overflow_checks, call, interface, result, held, events>>
vars == <<server, variant, new_result, start_calls, started, exit_calls,
          kill_calls, ops, invoked, last_result, op, pc, overflow_checks,
          call, interface, result, held, events>>

----------------------------------------------------------------------------
(* Bounds of the model *)

\* public operations performed on one DiagServer value before it is dropped
MaxOps == 3
\* commands one session is given, one after the other
MaxCommands == 2
\* longest response frame the scripted transport delivers
MaxFrameLen == 3
\* most frames one recv_data call delivers
MaxRecvFrames == 1

----------------------------------------------------------------------------
(* Values *)

None == [kind |-> "None"]
Some(x) == [kind |-> "Some", val |-> x]
Ok(x) == [kind |-> "Ok", val |-> x]
Err(e) == [kind |-> "Err", err |-> e]

\* u8
Byte == 0 .. 255

\* enum ProtocolError
CommError(e) == [variant |-> "CommError", inner |-> e]
ProtocolErrorOf(e) == [variant |-> "ProtocolError", inner |-> e]
CustomError(s) == [variant |-> "CustomError", text |-> s]
InvalidResponseSize(e, a) ==
    [variant |-> "InvalidResponseSize", expect |-> e, actual |-> a]
Timeout == [variant |-> "Timeout"]

\* ProtocolError::is_timeout
is_timeout(e) ==
    CASE e.variant = "CommError" -> FALSE
      [] e.variant = "ProtocolError" -> FALSE
      [] e.variant = "CustomError" -> FALSE
      [] e.variant = "InvalidResponseSize" -> FALSE
      [] e.variant = "Timeout" -> TRUE

\* a conversion that reports every transport failure as a timeout
from_ComServerError_as_timeout(x) == Timeout

\* impl From<ComServerError> for ProtocolError
from_ComServerError(x) == CommError(x)

\* CommandError::from_byte: the protocol's decoding of a negative response code
from_byte(b) == [nrc |-> b]

\* enum DiagProtocol
DiagProtocol == {"KWP2000", "UDS"}

----------------------------------------------------------------------------
(* The session facade: DiagServer *)

\* what an implementation's start_diag_session can return
StartErrors == {CommError("WriteFail"), Timeout, ProtocolErrorOf(from_byte(34))}
StartOutcomes == {Ok("session")} \cup {Err(e) : e \in StartErrors}

\* what an implementation's run_command, read_errors, clear_errors,
\* variant-id reader and DTC-status reader can return
ImplErrors == {CommError("ReadTimeout"), Timeout}
ImplResults == {Ok("value")} \cup {Err(e) : e \in ImplErrors}

\* a public operation of the facade, as the last one performed
Op(name, arg, ret) == [name |-> name, arg |-> arg, impl_ret |-> ret]
NoOp == Op("none", None, None)

\* struct DTC: the trouble codes get_dtc_env_data is asked about
DTCs ==
    {[error |-> "P0101", state |-> "Stored", check_engine_on |-> TRUE,
      id |-> 257],
     [error |-> "P0300", state |-> "Pending", check_engine_on |-> FALSE,
      id |-> 768]}

NoCall == [impl |-> "none", method |-> "none"]
Invoke(impl, method) == [impl |-> impl, method |-> method]

\* ProtocolServer::exit_diag_session of implementation p is invoked
exit_diag_session(calls, p) == [calls EXCEPT ![p] = @ + 1]

\* the body of DiagServer::kill_diag_server: match self, exit the session
kill_diag_server(calls, v) ==
    CASE v = "KWP2000" -> exit_diag_session(calls, "KWP2000")
      [] v = "UDS" -> exit_diag_session(calls, "UDS")

\* the ? operator on a ProtocolResult inside a function returning
\* ProtocolResult: Ok unwraps, Err returns From::from(err), the same error
Try(r) == IF r.kind = "Ok" THEN r ELSE Err(r.err)

\* DiagServer::new that wraps the session without looking at the outcome
New_keeps_failed_session(protocol, outcome) ==
    /\ server = "Uninitialized"
    /\ new_result = None
    /\ start_calls' = [start_calls EXCEPT ![protocol] = @ + 1]
    /\ started' = outcome
    /\ op' = Op("new", Some(protocol), outcome)
    /\ invoked' = Invoke(protocol, "start_diag_session")
    /\ server' = "Active"
    /\ variant' = protocol
    /\ new_result' = IF outcome.kind = "Ok" THEN Ok(protocol) ELSE outcome
    /\ UNCHANGED <<exit_calls, kill_calls, ops, last_result>>
    /\ UNCHANGED engine_vars

\* DiagServer::new with the implementation's start_diag_session returning
\* outcome
New(protocol, outcome) ==
    /\ server = "Uninitialized"
    /\ new_result = None
    /\ start_calls' = [start_calls EXCEPT ![protocol] = @ + 1]
    /\ started' = outcome
    /\ op' = Op("new", Some(protocol), outcome)
    /\ invoked' = Invoke(protocol, "start_diag_session")
    /\ IF Try(outcome).kind = "Ok"
       THEN /\ server' = "Active"
            /\ variant' = protocol
            /\ new_result' = Ok(protocol)
       ELSE /\ new_result' = Try(outcome)
            /\ UNCHANGED <<server, variant>>
    /\ UNCHANGED <<exit_calls, kill_calls, ops, last_result>>
    /\ UNCHANGED engine_vars

\* DiagServer::get_name
get_name(v) ==
    CASE v = "KWP2000" -> "KWP2000"
      [] v = "UDS" -> "UDS"

GetName ==
    /\ server = "Active"
    /\ ops < MaxOps
    /\ ops' = ops + 1
    /\ op' = Op("get_name", None, None)
    /\ invoked' = NoCall
    /\ last_result' = Ok(get_name(variant))
    /\ UNCHANGED <<server, variant, new_result, start_calls, started,
                   exit_calls, kill_calls>>
    /\ UNCHANGED engine_vars

\* DiagServer::kill_diag_server called by the owner of the value
KillDiagServer ==
    /\ server = "Active"
    /\ ops < MaxOps
    /\ ops' = ops + 1
    /\ op' = Op("kill_diag_server", None, None)
    /\ kill_calls' = kill_calls + 1
    /\ exit_calls' = kill_diag_server(exit_calls, variant)
    /\ invoked' = Invoke(variant, "exit_diag_session")
    /\ last_result' = None
    /\ UNCHANGED <<server, variant, new_result, start_calls, started>>
    /\ UNCHANGED engine_vars

\* a run_cmd whose KWP2000 arm calls into the UDS implementation
RunCmd_wrong_arm(r) ==
    /\ server = "Active"
    /\ ops < MaxOps
    /\ ops' = ops + 1
    /\ op' = Op("run_cmd", None, r)
    /\ invoked' = Invoke("UDS", "run_command")
    /\ last_result' = r
    /\ UNCHANGED <<server, variant, new_result, start_calls, started,
                   exit_calls, kill_calls>>
    /\ UNCHANGED engine_vars

\* DiagServer::run_cmd: match self, return the implementation's result
RunCmd(r) ==
    /\ server = "Active"
    /\ ops < MaxOps
    /\ ops' = ops + 1
    /\ op' = Op("run_cmd", None, r)
    /\ invoked' = CASE variant = "KWP2000" -> Invoke("KWP2000", "run_command")
                    [] variant = "UDS" -> Invoke("UDS", "run_command")
    /\ last_result' = r
    /\ UNCHANGED <<server, variant, new_result, start_calls, started,
                   exit_calls, kill_calls>>
    /\ UNCHANGED engine_vars

\* DiagServer::read_errors: match self, return the implementation's result
ReadErrors(r) ==
    /\ server = "Active"
    /\ ops < MaxOps
    /\ ops' = ops + 1
    /\ op' = Op("read_errors", None, r)
    /\ invoked' = CASE variant = "KWP2000" -> Invoke("KWP2000", "read_errors")
                    [] variant = "UDS" -> Invoke("UDS", "read_errors")
    /\ last_result' = r
    /\ UNCHANGED <<server, variant, new_result, start_calls, started,
                   exit_calls, kill_calls>>
    /\ UNCHANGED engine_vars

\* DiagServer::clear_errors: match self, return the implementation's result
ClearErrors(r) ==
    /\ server = "Active"
    /\ ops < MaxOps
    /\ ops' = ops + 1
    /\ op' = Op("clear_errors", None, r)
    /\ invoked' = CASE variant = "KWP2000" -> Invoke("KWP2000", "clear_errors")
                    [] variant = "UDS" -> Invoke("UDS", "clear_errors")
    /\ last_result' = r
    /\ UNCHANGED <<server, variant, new_result, start_calls, started,
                   exit_calls, kill_calls>>
    /\ UNCHANGED engine_vars

\* DiagServer::into_kwp
IntoKwp ==
    /\ server = "Active"
    /\ ops < MaxOps
    /\ ops' = ops + 1
    /\ op' = Op("into_kwp", None, None)
    /\ invoked' = NoCall
    /\ last_result' = CASE variant = "KWP2000" -> Some("KWP2000")
                        [] variant = "UDS" -> None
    /\ UNCHANGED <<server, variant, new_result, start_calls, started,
                   exit_calls, kill_calls>>
    /\ UNCHANGED engine_vars

\* DiagServer::get_variant_id
GetVariantId(r) ==
    /\ server = "Active"
    /\ ops < MaxOps
    /\ ops' = ops + 1
    /\ op' = Op("get_variant_id", None, r)
    /\ invoked' = CASE variant = "KWP2000" ->
                         Invoke("KWP2000", "read_dcx_mmc_id")
                    [] variant = "UDS" -> Invoke("UDS", "read_variant_id")
    /\ last_result' = r
    /\ UNCHANGED <<server, variant, new_result, start_calls, started,
                   exit_calls, kill_calls>>
    /\ UNCHANGED engine_vars

\* a get_dtc_env_data that delegates for either variant
GetDtcEnvData_delegates_always(dtc, r) ==
    /\ server = "Active"
    /\ ops < MaxOps
    /\ ops' = ops + 1
    /\ op' = Op("get_dtc_env_data", Some(dtc), r)
    /\ invoked' = Invoke(variant, "read_status_dtc")
    /\ last_result' = r
    /\ UNCHANGED <<server, variant, new_result, start_calls, started,
                   exit_calls, kill_calls>>
    /\ UNCHANGED engine_vars

\* DiagServer::get_dtc_env_data
GetDtcEnvData(dtc, r) ==
    /\ server = "Active"
    /\ ops < MaxOps
    /\ ops' = ops + 1
    /\ op' = Op("get_dtc_env_data", Some(dtc),
              IF variant = "KWP2000" THEN r ELSE None)
    /\ IF variant = "KWP2000"
       THEN /\ invoked' = Invoke("KWP2000", "read_status_dtc")
            /\ last_result' = r
       ELSE /\ invoked' = NoCall
            /\ last_result' =
                   Err(CustomError("Not implemented (get_dtc_env_data)"))
    /\ UNCHANGED <<server, variant, new_result, start_calls, started,
                   exit_calls, kill_calls>>
    /\ UNCHANGED engine_vars

\* a Drop that only logs and forgets to kill the session
Drop_without_kill ==
    /\ server = "Active"
    /\ server' = "Dropped"
    /\ op' = Op("drop", None, None)
    /\ UNCHANGED <<variant, new_result, start_calls, started, exit_calls,
                   kill_calls, ops, invoked, last_result>>
    /\ UNCHANGED engine_vars

\* impl Drop for DiagServer: the value's lifetime ends, on any path
Drop ==
    /\ server = "Active"
    /\ server' = "Dropped"
    /\ kill_calls' = kill_calls + 1
    /\ op' = Op("drop", None, None)
    /\ exit_calls' = kill_diag_server(exit_calls, variant)
    /\ invoked' = Invoke(variant, "exit_diag_session")
    /\ UNCHANGED <<variant, new_result, start_calls, started, ops,
                   last_result>>
    /\ UNCHANGED engine_vars

EngineOff ==
    /\ pc = "off"
    /\ overflow_checks = FALSE
    /\ call = None
    /\ interface = None
    /\ result = None
    /\ held = None
    /\ events = <<>>

FacadeIdle ==
    /\ server = "Uninitialized"
    /\ variant = "none"
    /\ new_result = None
    /\ start_calls = [p \in DiagProtocol |-> 0]
    /\ started = None
    /\ exit_calls = [p \in DiagProtocol |-> 0]
    /\ kill_calls = 0
    /\ ops = 0
    /\ invoked = NoCall
    /\ last_result = None
    /\ op = NoOp

Init ==
    /\ FacadeIdle
    /\ EngineOff

Next ==
    \/ \E p \in DiagProtocol, o \in StartOutcomes : New(p, o)
    \/ GetName
    \/ KillDiagServer
    \/ \E r \in ImplResults : RunCmd(r)
    \/ IntoKwp
    \/ \E r \in ImplResults : ReadErrors(r)
    \/ \E r \in ImplResults : ClearErrors(r)
    \/ \E r \in ImplResults : GetVariantId(r)
    \/ \E d \in DTCs, r \in ImplResults : GetDtcEnvData(d, r)
    \/ Drop

Spec == Init /\ [][Next]_vars

----------------------------------------------------------------------------
(* The transport (trait Interface), as a scripted mock that logs its calls *)

\* a frame as the transport delivers or accepts it
Frame(id, data) == [id |-> id, data |-> data]

\* Interface::send_data(frames, flags): transmit, no wait
send_data(iface, frames, fl) ==
    [reply |-> iface.send_reply,
     iface |-> [iface EXCEPT !.log =
                   Append(@, [op |-> "send_data", frames |-> frames,
                              flags |-> fl])]]

\* Interface::send_recv_data(frame, flags, timeout_ms): transmit, then wait
\* for one frame
send_recv_data(iface, frame, fl, timeout_ms) ==
    [reply |-> iface.send_recv_reply,
     iface |-> [iface EXCEPT !.log =
                   Append(@, [op |-> "send_recv_data", frame |-> frame,
                              flags |-> fl, timeout_ms |-> timeout_ms])]]

\* Interface::recv_data(count, timeout_ms): wait for up to count frames
recv_data(iface, count, timeout_ms) ==
    [reply |-> iface.recv_reply,
     iface |-> [iface EXCEPT !.log =
                   Append(@, [op |-> "recv_data", count |-> count,
                              timeout_ms |-> timeout_ms])]]

----------------------------------------------------------------------------
(* The shared request/response algorithm: ProtocolServer::run_command_resp *)

\* the wait budget of send_recv_data and recv_data, in ms
WaitBudgetMs == 2000
\* first byte of a negative response
NegativeResponse == 127
\* negative response code "response pending"
ResponsePending == 120
\* distance from an opcode to its positive-response echo
PositiveOffset == 64
\* number of values of a u8
U8Modulus == 256

Panic(msg) == [kind |-> "Panic", msg |-> msg]
OutOfBounds == Panic("index out of bounds")
AddOverflow == Panic("attempt to add with overflow")

\* Vec<u8> indexing data[i], 0-based: i must be below the length
InRange(data, i) == i < Len(data)
At(data, i) == data[i + 1]

\* Vec::get(0)
get0(v) == IF Len(v) > 0 THEN Some(v[1]) ELSE None

\* InterfacePayload::new(id, data): no flags set
InterfacePayload_new(id, data) == [id |-> id, data |-> data, flags |-> <<>>]

\* an outgoing frame with the opcode behind the arguments
build_tx_opcode_last(flags, send_id, cmd, args) ==
    LET tx_data == args \o <<cmd>>
        tx == InterfacePayload_new(send_id, tx_data)
    IN  IF flags.kind = "Some" THEN [tx EXCEPT !.flags = flags.val] ELSE tx

\* lines 263-268: the outgoing frame
build_tx(flags, send_id, cmd, args) ==
    LET tx_data == <<cmd>> \o args
        tx == InterfacePayload_new(send_id, tx_data)
    IN  IF flags.kind = "Some" THEN [tx EXCEPT !.flags = flags.val] ELSE tx

\* u8 addition a + b: wraps in a build without overflow checks, panics in a
\* build with them
add_u8(checks, a, b) ==
    IF a + b >= U8Modulus
    THEN IF checks THEN AddOverflow ELSE Ok((a + b) % U8Modulus)
    ELSE Ok(a + b)

\* a pending test that looks at the response code only, not at the marker
is_response_pending_by_code_only(res) ==
    IF ~InRange(res.data, 2) THEN Ok(FALSE)
    ELSE Ok(At(res.data, 2) = ResponsePending)

\* line 277: res.data[0] == 0x7F && res.data[2] == 0x78
is_response_pending(res) ==
    IF ~InRange(res.data, 0) THEN OutOfBounds
    ELSE IF At(res.data, 0) # NegativeResponse THEN Ok(FALSE)
    ELSE IF ~InRange(res.data, 2) THEN OutOfBounds
    ELSE Ok(At(res.data, 2) = ResponsePending)

\* a continuation that receives the follow-up but goes on with the pending
\* frame
await_follow_up_keeps_pending(iface, res) ==
    LET r == recv_data(iface, 1, WaitBudgetMs)
    IN  IF r.reply.kind = "Ok"
        THEN [next |-> Some(res), ret |-> None, iface |-> r.iface]
        ELSE [next |-> None, ret |-> Err(CommError(r.reply.err)),
              iface |-> r.iface]

\* a continuation that reports a missing follow-up as a timeout
await_follow_up_times_out(iface, res) ==
    LET r == recv_data(iface, 1, WaitBudgetMs)
    IN  IF r.reply.kind = "Ok"
        THEN IF get0(r.reply.val).kind = "Some"
             THEN [next |-> Some(get0(r.reply.val).val), ret |-> None,
                   iface |-> r.iface]
             ELSE [next |-> None, ret |-> Err(Timeout), iface |-> r.iface]
        ELSE [next |-> None, ret |-> Err(CommError(r.reply.err)),
              iface |-> r.iface]

\* a continuation that waits once more when the follow-up is pending too
await_follow_up_waits_again(iface, res) ==
    LET r == recv_data(iface, 1, WaitBudgetMs)
        first == IF r.reply.kind = "Ok" THEN get0(r.reply.val) ELSE None
        again == IF /\ first.kind = "Some"
                    /\ Len(first.val.data) >= 3
                    /\ At(first.val.data, 0) = NegativeResponse
                    /\ At(first.val.data, 2) = ResponsePending
                 THEN recv_data(r.iface, 1, WaitBudgetMs) ELSE r
    IN  IF again.reply.kind = "Ok"
        THEN IF get0(again.reply.val).kind = "Some"
             THEN [next |-> Some(get0(again.reply.val).val), ret |-> None,
                   iface |-> again.iface]
             ELSE [next |-> None,
                   ret |-> Err(ProtocolErrorOf(from_byte(At(res.data, 2)))),
                   iface |-> again.iface]
        ELSE [next |-> None, ret |-> Err(CommError(again.reply.err)),
              iface |-> again.iface]

\* a continuation that tries recv_data once more after it failed
await_follow_up_retries(iface, res) ==
    LET r == recv_data(iface, 1, WaitBudgetMs)
        again == IF r.reply.kind = "Err"
                 THEN recv_data(r.iface, 1, WaitBudgetMs) ELSE r
    IN  IF again.reply.kind = "Ok"
        THEN IF get0(again.reply.val).kind = "Some"
             THEN [next |-> Some(get0(again.reply.val).val), ret |-> None,
                   iface |-> again.iface]
             ELSE [next |-> None,
                   ret |-> Err(ProtocolErrorOf(from_byte(At(res.data, 2)))),
                   iface |-> again.iface]
        ELSE [next |-> None, ret |-> Err(CommError(again.reply.err)),
              iface |-> again.iface]

\* lines 280-291: wait for the follow-up of a pending response res.
\* Yields the frame to evaluate (next) or the value to return (ret).
await_follow_up(iface, res) ==
    LET r == recv_data(iface, 1, WaitBudgetMs)
    IN  IF r.reply.kind = "Ok"
        THEN IF get0(r.reply.val).kind = "Some"
             THEN [next |-> Some(get0(r.reply.val).val), ret |-> None,
                   iface |-> r.iface]
             ELSE [next |-> None,
                   ret |-> Err(ProtocolErrorOf(from_byte(At(res.data, 2)))),
                   iface |-> r.iface]
        ELSE [next |-> None, ret |-> Err(CommError(r.reply.err)),
              iface |-> r.iface]

\* a verdict that takes a negative response only when it echoes the opcode
evaluate_matching_opcode(checks, cmd, res) ==
    IF ~InRange(res.data, 0) THEN OutOfBounds
    ELSE IF At(res.data, 0) = NegativeResponse
    THEN IF ~InRange(res.data, 2) THEN OutOfBounds
         ELSE IF At(res.data, 1) = cmd
         THEN Err(ProtocolErrorOf(from_byte(At(res.data, 2))))
         ELSE Err(Timeout)
    ELSE LET echo == add_u8(checks, cmd, PositiveOffset)
         IN  IF echo.kind = "Panic" THEN echo
             ELSE IF At(res.data, 0) = echo.val THEN Ok(res.data)
             ELSE Err(Timeout)

\* a verdict that compares the echo before it looks for the negative marker
evaluate_echo_first(checks, cmd, res) ==
    IF ~InRange(res.data, 0) THEN OutOfBounds
    ELSE LET echo == add_u8(checks, cmd, PositiveOffset)
         IN  IF echo.kind = "Panic" THEN echo
             ELSE IF At(res.data, 0) = echo.val THEN Ok(res.data)
             ELSE IF At(res.data, 0) = NegativeResponse
             THEN IF ~InRange(res.data, 2) THEN OutOfBounds
                  ELSE Err(ProtocolErrorOf(from_byte(At(res.data, 2))))
             ELSE Err(Timeout)

\* lines 293-306: the verdict on the final frame res
evaluate(checks, cmd, res) ==
    IF ~InRange(res.data, 0) THEN OutOfBounds
    ELSE IF At(res.data, 0) = NegativeResponse
    THEN IF ~InRange(res.data, 2) THEN OutOfBounds
         ELSE Err(ProtocolErrorOf(from_byte(At(res.data, 2))))
    ELSE LET echo == add_u8(checks, cmd, PositiveOffset)
         IN  IF echo.kind = "Panic" THEN echo
             ELSE IF At(res.data, 0) = echo.val THEN Ok(res.data)
             ELSE Err(Timeout)

\* a run_command_resp that waits for a response whether or not one is
\* required
run_command_resp_waits_anyway(checks, iface, flags, send_id, cmd, args, receive_require) ==
    LET tx == build_tx(flags, send_id, cmd, args)
        s == send_recv_data(iface, tx, 0, WaitBudgetMs)
    IN  IF s.reply.kind = "Err"
        THEN [result |-> Err(from_ComServerError(s.reply.err)),
              iface |-> s.iface]
        ELSE [result |-> evaluate(checks, cmd, s.reply.val), iface |-> s.iface]

\* run_command_resp: the value returned and the transport afterwards
run_command_resp(checks, iface, flags, send_id, cmd, args, receive_require) ==
    LET tx == build_tx(flags, send_id, cmd, args)
    IN  IF ~receive_require
        THEN LET s == send_data(iface, <<tx>>, 0)
             IN  [result |-> IF s.reply.kind = "Ok" THEN Ok(<<>>)
                             ELSE Err(CommError(s.reply.err)),
                  iface |-> s.iface]
        ELSE LET s == send_recv_data(iface, tx, 0, WaitBudgetMs)
             IN  IF s.reply.kind = "Err"
                 THEN [result |-> Err(from_ComServerError(s.reply.err)),
                       iface |-> s.iface]
                 ELSE LET res == s.reply.val
                          pending == is_response_pending(res)
                      IN  IF pending.kind = "Panic"
                          THEN [result |-> pending, iface |-> s.iface]
                          ELSE IF pending.val
                          THEN LET f == await_follow_up(s.iface, res)
                               IN  IF f.next.kind = "Some"
                                   THEN [result |->
                                            evaluate(checks, cmd, f.next.val),
                                         iface |-> f.iface]
                                   ELSE [result |-> f.ret, iface |-> f.iface]
                          ELSE [result |-> evaluate(checks, cmd, res),
                                iface |-> s.iface]

\* one call of run_command_resp, from entry to return
RunCommandResp ==
    /\ pc = "ready"
    /\ LET r == run_command_resp(overflow_checks, interface, call.flags,
                                 call.send_id, call.cmd, call.args,
                                 call.receive_require)
       IN  /\ result' = r.result
           /\ interface' = r.iface
    /\ pc' = "done"
    /\ UNCHANGED <<overflow_checks, call, held, events>>
    /\ UNCHANGED facade_vars

----------------------------------------------------------------------------
(* The calls and transport scripts run_command_resp is checked on *)

ArgsSet == {<<>>, <<241, 144>>}
FlagsSet == {None, Some(<<"ISOTP_PAD_FRAME">>)}
SendIds == {2016}
RecvIds == {2024}

Calls ==
    [cmd : Byte, args : ArgsSet, flags : FlagsSet, send_id : SendIds,
     receive_require : BOOLEAN]

\* the bytes a scripted frame may hold at 0-based position i, in reply to cmd
FrameBytes(cmd, i) ==
    CASE i = 0 -> {NegativeResponse, (cmd + PositiveOffset) % U8Modulus, 81}
      [] i = 1 -> {16}
      [] i = 2 -> {ResponsePending, 34}
      [] OTHER -> {144}

RECURSIVE DataOfLen(_, _)
DataOfLen(cmd, n) ==
    IF n = 0 THEN {<<>>}
    ELSE {Append(d, b) : d \in DataOfLen(cmd, n - 1),
                         b \in FrameBytes(cmd, n - 1)}

Frames(cmd) ==
    {Frame(id, d) : id \in RecvIds,
                    d \in UNION {DataOfLen(cmd, n) : n \in 0 .. MaxFrameLen}}

\* frames that arrive behind the first one of a recv_data reply
LaterFrames == {Frame(id, <<81, 0>>) : id \in RecvIds}

RECURSIVE FrameLists(_, _)
FrameLists(cmd, n) ==
    IF n = 0 THEN {<<>>}
    ELSE IF n = 1 THEN {<<f>> : f \in Frames(cmd)}
    ELSE {Append(l, f) : l \in FrameLists(cmd, n - 1), f \in LaterFrames}

TransportErrors == {"ReadTimeout"}

SendReplies == {Ok("sent")} \cup {Err(e) : e \in TransportErrors}
SendRecvReplies(cmd) ==
    {Ok(f) : f \in Frames(cmd)} \cup {Err(e) : e \in TransportErrors}
RecvReplies(cmd) ==
    {Ok(l) : l \in UNION {FrameLists(cmd, n) : n \in 0 .. MaxRecvFrames}}
        \cup {Err(e) : e \in TransportErrors}

\* a frame the ECU has sent although nobody asked for it
StrayFrame(cmd) == Frame(2024, <<(cmd + PositiveOffset) % U8Modulus, 16>>)
StrayReplies(cmd) == {Ok(<<>>), Ok(<<StrayFrame(cmd)>>)}

IsPendingReply(r) ==
    /\ r.kind = "Ok"
    /\ Len(r.val.data) >= 3
    /\ r.val.data[1] = NegativeResponse
    /\ r.val.data[3] = ResponsePending

\* The scripts of the transport for call c. The reply to the one transmit
\* call varies over all its outcomes; the follow-up reply varies over all its
\* outcomes behind a pending first reply, and over the stray ones otherwise.
Scripts(c) ==
    IF ~c.receive_require
    THEN {[send_reply |-> s, send_recv_reply |-> Ok(StrayFrame(c.cmd)),
           recv_reply |-> r, log |-> <<>>] :
             s \in SendReplies, r \in StrayReplies(c.cmd)}
    ELSE UNION {{[send_reply |-> Ok("sent"), send_recv_reply |-> s,
                  recv_reply |-> r, log |-> <<>>] :
                    r \in IF IsPendingReply(s) THEN RecvReplies(c.cmd)
                          ELSE StrayReplies(c.cmd)} :
                s \in SendRecvReplies(c.cmd)}

EngineInit ==
    /\ FacadeIdle
    /\ pc = "ready"
    /\ overflow_checks \in BOOLEAN
    /\ call \in Calls
    /\ interface \in Scripts(call)
    /\ result = None
    /\ held = None
    /\ events = <<>>

EngineNext == RunCommandResp

EngineSpec == EngineInit /\ [][EngineNext]_vars

----------------------------------------------------------------------------
(* run_command_resp step by step, for a session that is given several       *)
(* commands: a step ends where the call blocks in the transport or returns  *)

\* the history of the session
Called(n) == [ev |-> "call", n |-> n]
Sent(n, data) == [ev |-> "tx", n |-> n, data |-> data]
Delivered(n, f) == [ev |-> "rx", n |-> n, frame |-> f]
Evaluated(n, cmd, f) == [ev |-> "eval", n |-> n, cmd |-> cmd, frame |-> f]
ReturnedFrom(n) == [ev |-> "return", n |-> n]

\* the number of the call in progress: the calls entered so far
CallNo == Cardinality({i \in DOMAIN events : events[i].ev = "call"})

SerialOpcodes == {16, 62}
SerialCalls ==
    [cmd : SerialOpcodes, args : {<<>>}, flags : {None}, send_id : SendIds,
     receive_require : BOOLEAN]

\* what the ECU may answer to cmd: pending, negative, positive, unrelated
SerialFrames(cmd) ==
    {Frame(id, d) : id \in RecvIds,
                    d \in {<<NegativeResponse, cmd, ResponsePending>>,
                           <<NegativeResponse, cmd, 34>>,
                           <<cmd + PositiveOffset, 0>>,
                           <<81, 0>>}}
SerialSendRecvReplies(cmd) ==
    {Ok(f) : f \in SerialFrames(cmd)} \cup {Err(e) : e \in TransportErrors}
SerialRecvReplies(cmd) ==
    {Ok(<<>>)} \cup {Ok(<<f>>) : f \in SerialFrames(cmd)}
        \cup {Err(e) : e \in TransportErrors}

SerialFirstReplies ==
    UNION {SerialSendRecvReplies(cmd) : cmd \in SerialOpcodes}
SerialLaterReplies ==
    UNION {SerialRecvReplies(cmd) : cmd \in SerialOpcodes}

\* a transport that has seen no call and has nothing to deliver yet
QuietInterface ==
    [send_reply |-> Ok("sent"), send_recv_reply |-> Err("ReadTimeout"),
     recv_reply |-> Ok(<<>>), log |-> <<>>]

\* the caller enters run_command_resp with call c. DiagServer::run_cmd takes
\* &mut self: the next call is entered only when the last one has returned.
SerialCall(c) ==
    /\ pc \in {"idle", "returned"}
    /\ CallNo < MaxCommands
    /\ call' = c
    /\ interface' = QuietInterface
    /\ result' = None
    /\ held' = None
    /\ events' = Append(events, Called(CallNo + 1))
    /\ pc' = "entered"
    /\ UNCHANGED overflow_checks
    /\ UNCHANGED facade_vars

\* lines 263-273: build the frame and, when no response is required, hand it
\* to the transport and return
StepSend(reply) ==
    /\ pc = "entered"
    /\ ~call.receive_require
    /\ LET tx == build_tx(call.flags, call.send_id, call.cmd, call.args)
           s == send_data([interface EXCEPT !.send_reply = reply], <<tx>>, 0)
       IN  /\ interface' = s.iface
           /\ result' = IF s.reply.kind = "Ok" THEN Ok(<<>>)
                        ELSE Err(CommError(s.reply.err))
           /\ events' = events \o <<Sent(CallNo, tx.data),
                                    ReturnedFrom(CallNo)>>
    /\ pc' = "returned"
    /\ UNCHANGED <<overflow_checks, call, held>>
    /\ UNCHANGED facade_vars

\* lines 263-268, 276: build the frame, transmit it and wait for the first
\* frame, which the transport answers with reply
StepTransmit(reply) ==
    /\ pc = "entered"
    /\ call.receive_require
    /\ reply \in SerialSendRecvReplies(call.cmd)
    /\ LET tx == build_tx(call.flags, call.send_id, call.cmd, call.args)
           s == send_recv_data([interface EXCEPT !.send_recv_reply = reply],
                               tx, 0, WaitBudgetMs)
       IN  /\ interface' = s.iface
           /\ IF s.reply.kind = "Err"
              THEN /\ result' = Err(from_ComServerError(s.reply.err))
                   /\ events' = events \o <<Sent(CallNo, tx.data),
                                            ReturnedFrom(CallNo)>>
                   /\ pc' = "returned"
                   /\ UNCHANGED held
              ELSE /\ held' = Some(s.reply.val)
                   /\ events' = events \o <<Sent(CallNo, tx.data),
                                            Delivered(CallNo, s.reply.val)>>
                   /\ pc' = "received"
                   /\ UNCHANGED result
    /\ UNCHANGED <<overflow_checks, call>>
    /\ UNCHANGED facade_vars

\* a continuation that puts the request on the bus again before it waits
StepContinue_resends(reply) ==
    /\ pc = "received"
    /\ LET pending == is_response_pending(held.val)
           tx == build_tx(call.flags, call.send_id, call.cmd, call.args)
       IN  IF pending.kind = "Panic"
           THEN /\ reply = Ok(<<>>)
                /\ result' = pending
                /\ events' = Append(events, ReturnedFrom(CallNo))
                /\ pc' = "returned"
                /\ UNCHANGED <<interface, held>>
           ELSE IF pending.val
           THEN LET f == await_follow_up(
                             send_data([interface EXCEPT
                                            !.recv_reply = reply],
                                       <<tx>>, 0).iface,
                             held.val)
                IN  /\ reply \in SerialRecvReplies(call.cmd)
                    /\ interface' = f.iface
                    /\ IF f.next.kind = "Some"
                       THEN /\ held' = f.next
                            /\ events' = events \o
                                   <<Sent(CallNo, tx.data),
                                     Delivered(CallNo, f.next.val)>>
                            /\ pc' = "evaluating"
                            /\ UNCHANGED result
                       ELSE /\ result' = f.ret
                            /\ events' = events \o
                                   <<Sent(CallNo, tx.data),
                                     ReturnedFrom(CallNo)>>
                            /\ pc' = "returned"
                            /\ UNCHANGED held
           ELSE /\ reply = Ok(<<>>)
                /\ pc' = "evaluating"
                /\ UNCHANGED <<interface, held, result, events>>
    /\ UNCHANGED <<overflow_checks, call>>
    /\ UNCHANGED facade_vars

\* lines 277-292: the pending test and, behind a pending response, the
\* continuation wait, which the transport answers with reply
StepContinue(reply) ==
    /\ pc = "received"
    /\ LET pending == is_response_pending(held.val)
       IN  IF pending.kind = "Panic"
           THEN /\ reply = Ok(<<>>)
                /\ result' = pending
                /\ events' = Append(events, ReturnedFrom(CallNo))
                /\ pc' = "returned"
                /\ UNCHANGED <<interface, held>>
           ELSE IF pending.val
           THEN LET f == await_follow_up(
                             [interface EXCEPT !.recv_reply = reply],
                             held.val)
                IN  /\ reply \in SerialRecvReplies(call.cmd)
                    /\ interface' = f.iface
                    /\ IF f.next.kind = "Some"
                       THEN /\ held' = f.next
                            /\ events' = Append(events,
                                                Delivered(CallNo, f.next.val))
                            /\ pc' = "evaluating"
                            /\ UNCHANGED result
                       ELSE /\ result' = f.ret
                            /\ events' = Append(events, ReturnedFrom(CallNo))
                            /\ pc' = "returned"
                            /\ UNCHANGED held
           ELSE /\ reply = Ok(<<>>)
                /\ pc' = "evaluating"
                /\ UNCHANGED <<interface, held, result, events>>
    /\ UNCHANGED <<overflow_checks, call>>
    /\ UNCHANGED facade_vars

\* lines 293-307: the verdict on the frame held, and the return
StepEvaluate ==
    /\ pc = "evaluating"
    /\ result' = evaluate(overflow_checks, call.cmd, held.val)
    /\ events' = events \o <<Evaluated(CallNo, call.cmd, held.val),
                             ReturnedFrom(CallNo)>>
    /\ pc' = "returned"
    /\ UNCHANGED <<overflow_checks, call, interface, held>>
    /\ UNCHANGED facade_vars

SerialInit ==
    /\ FacadeIdle
    /\ pc = "idle"
    /\ overflow_checks \in BOOLEAN
    /\ call = None
    /\ interface = QuietInterface
    /\ result = None
    /\ held = None
    /\ events = <<>>

SerialNext ==
    \/ \E c \in SerialCalls : SerialCall(c)
    \/ \E r \in SendReplies : StepSend(r)
    \/ \E r \in SerialFirstReplies : StepTransmit(r)
    \/ \E r \in SerialLaterReplies : StepContinue(r)
    \/ StepEvaluate

SerialSpec == SerialInit /\ [][SerialNext]_vars

----------------------------------------------------------------------------
(* Properties of the facade, checked under Spec *)

TotalExitCalls == exit_calls["KWP2000"] + exit_calls["UDS"]

\* C1: once a DiagServer obtained from a successful new has been destroyed,
\* exit_diag_session has been invoked exactly once in total, whatever
\* operations (failing ones, explicit kill_diag_server calls) came before.
C1_ExitExactlyOnce ==
    server = "Dropped" => TotalExitCalls = 1

\* C2: once a DiagServer obtained from a successful new no longer exists,
\* exit_diag_session of the variant it held has been invoked at least once,
\* on every path: no operation, failed operations, explicit kill.
C2_NoSessionLeftOpen ==
    server = "Dropped" => exit_calls[variant] >= 1

\* the value is dropped right after an operation failed, with no explicit
\* kill: the exit call comes from Drop alone
C2_Witness ==
    /\ server = "Dropped"
    /\ last_result.kind = "Err"
    /\ kill_calls = 1
    /\ exit_calls[variant] = 1

\* C3: when start_diag_session fails inside new, new returns that same
\* error, no DiagServer value exists, and neither kill_diag_server nor
\* exit_diag_session is invoked.
C3_FailedNewConstructsNothing ==
    started.kind = "Err" =>
        /\ new_result = started
        /\ server = "Uninitialized"
        /\ variant = "none"
        /\ kill_calls = 0
        /\ TotalExitCalls = 0

C3_Witness ==
    /\ started = Err(Timeout)
    /\ new_result = Err(Timeout)
    /\ start_calls["UDS"] = 1

\* the protocol new was called with
Requested == new_result.val
MethodOf(name) ==
    CASE name = "run_cmd" -> "run_command"
      [] name = "read_errors" -> "read_errors"
      [] name = "clear_errors" -> "clear_errors"

\* C13: a DiagServer created by new(P, ..) holds variant P all its life.
\* get_name returns "KWP2000" iff P = KWP2000 and "UDS" iff P = UDS; run_cmd,
\* read_errors, clear_errors, get_variant_id, get_dtc_env_data and
\* kill_diag_server reach the implementation of P only, never the other
\* one; run_cmd, read_errors and clear_errors return the implementation's
\* result unchanged.
C13_VariantFixedAndDispatched ==
    server \in {"Active", "Dropped"} =>
        /\ new_result.kind = "Ok"
        /\ variant = Requested
        /\ invoked.impl \in {"none", Requested}
        /\ \A q \in DiagProtocol \ {Requested} :
               start_calls[q] = 0 /\ exit_calls[q] = 0
        /\ op.name = "get_name" =>
               /\ last_result = Ok("KWP2000") <=> Requested = "KWP2000"
               /\ last_result = Ok("UDS") <=> Requested = "UDS"
        /\ op.name \in {"run_cmd", "read_errors", "clear_errors"} =>
               /\ invoked = Invoke(Requested, MethodOf(op.name))
               /\ last_result = op.impl_ret
        /\ op.name = "get_variant_id" => invoked.impl = Requested
        /\ op.name \in {"kill_diag_server", "drop"} =>
               invoked = Invoke(Requested, "exit_diag_session")

\* a KWP2000 server whose run_cmd failed in the implementation
C13_Witness ==
    /\ server = "Active"
    /\ new_result = Ok("KWP2000")
    /\ ops = 3
    /\ op = Op("run_cmd", None, Err(Timeout))
    /\ invoked = Invoke("KWP2000", "run_command")
    /\ last_result = Err(Timeout)

NotImplemented == Err(CustomError("Not implemented (get_dtc_env_data)"))

C14_UdsPlaceholder ==
    (server = "Active" /\ op.name = "get_dtc_env_data") =>
        /\ variant = "UDS" =>
               (last_result = NotImplemented /\ invoked = NoCall)
        /\ variant = "KWP2000" =>
               /\ invoked = Invoke("KWP2000", "read_status_dtc")
               /\ last_result = op.impl_ret

C14_StateUntouched ==
    (op'.name = "get_dtc_env_data" /\ ops' = ops + 1) =>
        UNCHANGED <<server, variant, new_result, start_calls, started,
                    exit_calls, kill_calls>>

\* C14: with the UDS variant active, get_dtc_env_data returns
\* ProtocolError::CustomError("Not implemented ...") for every DTC, reaches
\* no session or transport operation and leaves the facade as it was; only
\* the KWP2000 variant delegates to the DTC-status reader.
C14_UdsEnvDataNotImplemented ==
    /\ []C14_UdsPlaceholder
    /\ [][C14_StateUntouched]_vars

\* get_dtc_env_data on a UDS server that has worked before
C14_Witness ==
    /\ server = "Active"
    /\ variant = "UDS"
    /\ ops = 2
    /\ op.name = "get_dtc_env_data"
    /\ op.arg.val.id = 768
    /\ last_result = NotImplemented
    /\ invoked = NoCall

----------------------------------------------------------------------------
(* Properties of run_command_resp, checked under EngineSpec *)

Returned == pc = "done"
WithResponse == call.receive_require
FirstReply == interface.send_recv_reply
FollowUpReply == interface.recv_reply

\* the first reply is a frame that line 277 takes for "response pending"
FirstIsPending == IsPendingReply(FirstReply)
\* a follow-up frame came in behind a pending first reply
FollowUpArrived ==
    /\ FirstIsPending
    /\ FollowUpReply.kind = "Ok"
    /\ Len(FollowUpReply.val) > 0
\* no follow-up frame came in behind a pending first reply: recv_data
\* returned without a frame
NoFollowUp ==
    /\ FirstIsPending
    /\ FollowUpReply = Ok(<<>>)

\* the frame the call's verdict is about: the follow-up behind a pending
\* first reply, the first reply otherwise
HasFinalFrame ==
    /\ WithResponse
    /\ FirstReply.kind = "Ok"
    /\ FirstIsPending => (FollowUpArrived \/ NoFollowUp)
FinalData ==
    IF FollowUpArrived THEN FollowUpReply.val[1].data ELSE FirstReply.val.data

SendRecvCall(e) ==
    /\ e.op = "send_recv_data"
    /\ e.frame.data = <<call.cmd>> \o call.args
RecvCall(e) == e = [op |-> "recv_data", count |-> 1, timeout_ms |-> 2000]

Echo8 == (call.cmd + PositiveOffset) % U8Modulus

\* a frame within the documented contract: a negative response has 3 bytes
InContract(data) ==
    (Len(data) > 0 /\ data[1] = NegativeResponse) => Len(data) >= 3

C6_NegativeResponseDecoded ==
    (/\ Returned
     /\ HasFinalFrame
     /\ Len(FinalData) > 0
     /\ FinalData[1] = NegativeResponse)
    => /\ Len(FinalData) >= 3
       /\ result = Err(ProtocolErrorOf(from_byte(FinalData[3])))

\* C7: a response too short for the bytes the algorithm inspects (empty, or
\* negative with fewer than 3 bytes) is surfaced as InvalidResponseSize, and
\* no out-of-range access on the response buffer happens.
C7_ShortResponseGuarded ==
    Returned =>
        /\ result # OutOfBounds
        /\ (/\ HasFinalFrame
            /\ \/ Len(FinalData) = 0
               \/ FinalData[1] = NegativeResponse /\ Len(FinalData) < 3)
           => /\ result.kind = "Err"
              /\ result.err.variant = "InvalidResponseSize"

\* C8: for every opcode, opcodes >= 0xC0 included, the first byte of a
\* response that is not negative is compared with (opcode + 0x40) mod 0x100
\* and the call completes with a result value: Ok on a match, an error
\* otherwise, never a failure on overflow.
C8_EchoWrapsAround ==
    (/\ Returned
     /\ HasFinalFrame
     /\ Len(FinalData) > 0
     /\ FinalData[1] # NegativeResponse)
    => /\ result.kind \in {"Ok", "Err"}
       /\ result.kind = "Ok" <=> FinalData[1] = Echo8

\* C9: when the final frame's first byte is neither 0x7F nor the echo of
\* the opcode, the call fails with ProtocolError::Timeout, for which
\* is_timeout() is true, and with no other error kind.
C9_MismatchedEchoIsTimeout ==
    (/\ Returned
     /\ HasFinalFrame
     /\ Len(FinalData) > 0
     /\ FinalData[1] # NegativeResponse
     /\ FinalData[1] # Echo8)
    => /\ result = Err(Timeout)
       /\ is_timeout(result.err)

\* C10: when a pending response was received and recv_data delivers no
\* follow-up frame, the call fails with ProtocolError::ProtocolError
\* decoding the pending byte itself, from_byte(0x78).
C10_PendingWithoutFollowUp ==
    (Returned /\ WithResponse /\ NoFollowUp)
    => result = Err(ProtocolErrorOf(from_byte(120)))

\* opcode 0x10, first reply [0x7F, 0x10, 0x78], recv_data returns no frame
C10_Witness ==
    /\ Returned
    /\ WithResponse
    /\ call.cmd = 16
    /\ FirstReply.kind = "Ok"
    /\ FirstReply.val.data = <<127, 16, 120>>
    /\ FollowUpReply = Ok(<<>>)
    /\ Len(interface.log) = 2
    /\ result = Err(ProtocolErrorOf(from_byte(120)))


\* the transport calls of the call, in order, and what each was answered
Log == interface.log
ReplyTo(e) ==
    CASE e.op = "send_data" -> interface.send_reply
      [] e.op = "send_recv_data" -> interface.send_recv_reply
      [] e.op = "recv_data" -> interface.recv_reply
Transmits == {i \in DOMAIN Log : Log[i].op \in {"send_data", "send_recv_data"}}
Receives == {i \in DOMAIN Log : Log[i].op = "recv_data"}

\* C11: one call transmits the request exactly once, as its first transport
\* call (send_data without, send_recv_data with a required response); a
\* transport error of any transport call ends the call with
\* ProtocolError::CommError wrapping that error, and no transport call
\* follows it.
C11_TransportFailureNotRetried ==
    Returned =>
        /\ Transmits = {1}
        /\ Log[1].op = IF WithResponse THEN "send_recv_data" ELSE "send_data"
        /\ \A i \in DOMAIN Log :
               ReplyTo(Log[i]).kind = "Err" =>
                   /\ i = Len(Log)
                   /\ result = Err(CommError(ReplyTo(Log[i]).err))

\* the continuation wait behind a pending response fails in the transport
C11_Witness ==
    /\ Returned
    /\ WithResponse
    /\ FirstIsPending
    /\ FollowUpReply = Err("ReadTimeout")
    /\ Len(Log) = 2
    /\ result = Err(CommError("ReadTimeout"))

\* C12: fire-and-forget. With receive_require = false the call performs
\* exactly one send_data and no receive of any kind, and returns Ok with an
\* empty byte sequence if the send succeeds and CommError if it fails,
\* whatever frame the ECU has sent back.
C12_FireAndForget ==
    (Returned /\ ~WithResponse) =>
        /\ Len(Log) = 1
        /\ Log[1].op = "send_data"
        /\ Log[1].frames = <<build_tx(call.flags, call.send_id, call.cmd,
                                      call.args)>>
        /\ interface.send_reply.kind = "Ok" => result = Ok(<<>>)
        /\ interface.send_reply.kind = "Err" =>
               result = Err(CommError(interface.send_reply.err))

\* the send succeeds while a frame of the ECU is waiting in the transport
C12_Witness ==
    /\ Returned
    /\ ~WithResponse
    /\ interface.send_reply.kind = "Ok"
    /\ interface.recv_reply = Ok(<<StrayFrame(call.cmd)>>)
    /\ result = Ok(<<>>)


\* a frame of the form [0x7F, x, 0x78, ...]
PendingForm(data) ==
    /\ Len(data) >= 3
    /\ data[1] = NegativeResponse
    /\ data[3] = ResponsePending

C17_OkIsCorrelated ==
    (Returned /\ WithResponse) =>
        /\ result.kind = "Ok" =>
               /\ HasFinalFrame
               /\ result.val = FinalData
               /\ Len(FinalData) > 0
               /\ FinalData[1] = Echo8
               /\ FinalData[1] # NegativeResponse
        /\ call.cmd = 63 => result.kind # "Ok"

\* opcode 0x3F answered by its own echo 0x7F: a negative response, not Ok
C17_Witness ==
    /\ Returned
    /\ WithResponse
    /\ call.cmd = 63
    /\ FirstReply.kind = "Ok"
    /\ FirstReply.val.data = <<127, 16, 34>>
    /\ result = Err(ProtocolErrorOf(from_byte(34)))

\* C18: the call returns ProtocolError::Timeout only when a frame was
\* received whose first byte is neither 0x7F nor the expected echo. When the
\* transport reports a failure or timeout instead of a frame, the result is
\* CommError, for which is_timeout() is false.
C18_TimeoutMeansWrongFrame ==
    Returned =>
        /\ (result.kind = "Err" /\ is_timeout(result.err)) =>
               /\ result = Err(Timeout)
               /\ HasFinalFrame
               /\ Len(FinalData) > 0
               /\ FinalData[1] # NegativeResponse
               /\ FinalData[1] # Echo8
        /\ \A i \in DOMAIN Log :
               ReplyTo(Log[i]).kind = "Err" =>
                   /\ result.kind = "Err"
                   /\ result.err.variant = "CommError"
                   /\ ~is_timeout(result.err)

\* the transport times out on the first wait: CommError, not Timeout
C18_Witness ==
    /\ Returned
    /\ WithResponse
    /\ FirstReply = Err("ReadTimeout")
    /\ result = Err(CommError("ReadTimeout"))
    /\ ~is_timeout(result.err)


\* frame f as sender id would have sent it, with the echoed-opcode byte of a
\* negative response replaced by y
Resent(f, id, y) ==
    [id |-> id,
     data |-> IF Len(f.data) >= 2 /\ f.data[1] = NegativeResponse
              THEN [f.data EXCEPT ![2] = y] ELSE f.data]
ResentReply(r, id, y) ==
    IF r.kind = "Ok" THEN Ok(Resent(r.val, id, y)) ELSE r
ResentReplies(r, id, y) ==
    IF r.kind = "Ok"
    THEN Ok([i \in DOMAIN r.val |-> Resent(r.val[i], id, y)]) ELSE r
\* the transport before the call, with every scripted frame resent
ResentScript(id, y) ==
    [send_reply |-> interface.send_reply,
     send_recv_reply |-> ResentReply(interface.send_recv_reply, id, y),
     recv_reply |-> ResentReplies(interface.recv_reply, id, y),
     log |-> <<>>]
\* the echoed-opcode bytes and sender ids the frames are resent with
EchoedOpcodes == {call.cmd, (call.cmd + 1) % U8Modulus}
SenderIds == RecvIds \cup SendIds

\* C19: a frame is classified as pending or negative from bytes 0 and 2
\* alone. A frame [0x7F, y, n] is taken as the pending or negative response
\* to the current command for every y, also y different from the opcode
\* sent, and the frame's sender id is compared with nothing: the call
\* returns the same value and makes the same transport calls whatever y and
\* the sender id are.
C19_ClassifiedByBytes0And2 ==
    (Returned /\ WithResponse) =>
        /\ (/\ HasFinalFrame
            /\ Len(FinalData) >= 3
            /\ FinalData[1] = NegativeResponse
            /\ FinalData[2] # call.cmd)
           => result = Err(ProtocolErrorOf(from_byte(FinalData[3])))
        /\ (FirstIsPending /\ FirstReply.val.data[2] # call.cmd)
           => (Len(Log) = 2 /\ Log[2].op = "recv_data")
        /\ \A id \in SenderIds, y \in EchoedOpcodes :
               LET r == run_command_resp(overflow_checks,
                                         ResentScript(id, y), call.flags,
                                         call.send_id, call.cmd, call.args,
                                         call.receive_require)
               IN  /\ r.result = result
                   /\ r.iface.log = Log

\* opcode 0x22: pending frame and negative follow-up both echo opcode 0x10
C19_Witness ==
    /\ Returned
    /\ WithResponse
    /\ call.cmd = 34
    /\ FirstReply.kind = "Ok"
    /\ FirstReply.val.data = <<127, 16, 120>>
    /\ FollowUpReply.kind = "Ok"
    /\ Len(FollowUpReply.val) = 1
    /\ FollowUpReply.val[1].data = <<127, 16, 34>>
    /\ Len(Log) = 2
    /\ result = Err(ProtocolErrorOf(from_byte(34)))


\* the frame a transmit call was handed
FrameOf(e) == IF e.op = "send_data" THEN e.frames[1] ELSE e.frame
\* the frame the claim describes
ExpectedTx ==
    [id |-> call.send_id,
     data |-> <<call.cmd>> \o call.args,
     flags |-> IF call.flags.kind = "Some" THEN call.flags.val
               ELSE InterfacePayload_new(call.send_id, <<>>).flags]

C20_FrameOnWire ==
    Returned =>
        /\ Transmits = {1}
        /\ Log[1].op = "send_data" => Len(Log[1].frames) = 1
        /\ FrameOf(Log[1]) = ExpectedTx

\* C20: the frame transmitted is [opcode] followed by the argument bytes in
\* order, addressed to send_id, with the caller's flags when present and the
\* payload's default flags otherwise; it is handed to the transport once per
\* call, and the call leaves the caller's args and flags as they were.
C20_TransmittedFrame ==
    /\ []C20_FrameOnWire
    /\ [][call' = call]_vars

\* opcode 0x22 with arguments [0xF1, 0x90] and caller-supplied flags
C20_Witness ==
    /\ Returned
    /\ call.cmd = 34
    /\ call.args = <<241, 144>>
    /\ call.flags = Some(<<"ISOTP_PAD_FRAME">>)
    /\ Log[1].op = "send_recv_data"
    /\ Log[1].frame = [id |-> 2016, data |-> <<34, 241, 144>>,
                       flags |-> <<"ISOTP_PAD_FRAME">>]


----------------------------------------------------------------------------
(* Properties of a session given several commands, checked under SerialSpec *)

\* the step-by-step call returns what run_command_resp returns at once, and
\* makes the same transport calls
StepwiseAgrees ==
    pc = "returned" =>
        LET once == run_command_resp(overflow_checks,
                                     [interface EXCEPT !.log = <<>>],
                                     call.flags, call.send_id, call.cmd,
                                     call.args, call.receive_require)
        IN  /\ result = once.result
            /\ interface.log = once.iface.log

EventsOf(kind, i) == {j \in 1 .. i : events[j].ev = kind}
\* commands on the bus after event i: transmitted and not yet returned from
InFlight(i) ==
    Cardinality(EventsOf("tx", i)) - Cardinality(EventsOf("return", i))
\* the latest transmission before event i, 0 when there is none
LastTx(i) ==
    IF EventsOf("tx", i - 1) = {} THEN 0
    ELSE CHOOSE j \in EventsOf("tx", i - 1) :
             \A k \in EventsOf("tx", i - 1) : k <= j

\* C15: with the calls serialized by the caller, at most one command is in
\* flight at any time, and every frame delivered or evaluated belongs to the
\* most recently sent command: it follows that command's transmission with
\* no other transmission in between, and it is judged against the opcode
\* that transmission carried
C15_OneCommandInFlight ==
    \A i \in DOMAIN events :
        /\ InFlight(i) \in {0, 1}
        /\ events[i].ev \in {"rx", "eval"} =>
               /\ LastTx(i) # 0
               /\ events[LastTx(i)].n = events[i].n
               /\ \A j \in LastTx(i) .. i : events[j].n = events[i].n
        /\ events[i].ev = "eval" =>
               /\ events[LastTx(i)].data[1] = events[i].cmd
               /\ \E j \in LastTx(i) + 1 .. i - 1 :
                      events[j] = Delivered(events[i].n, events[i].frame)

\* two commands with different opcodes were sent one after the other, the
\* first answered pending and then by a follow-up, and both were evaluated
C15_Witness ==
    /\ pc = "returned"
    /\ \E i, j \in DOMAIN events :
           /\ i < j
           /\ events[i].ev = "eval" /\ events[i].n = 1
           /\ events[j].ev = "eval" /\ events[j].n = 2
           /\ events[i].cmd # events[j].cmd
           /\ Cardinality({k \in 1 .. i : events[k].ev = "rx"}) = 2

====
